---- MODULE Spec2Model ----
(***************************************************************************)
(* A model of the Accordion widget of src/shared/ts/components/accordion.ts *)
(* and of the demo page script src/js/app.ts that flips the two root flags. *)
(*                                                                         *)
(* The document is modelled by the attributes the widget reads and writes: *)
(* for each controller (button) its aria-controls, aria-expanded and       *)
(* aria-disabled, for each container (section) its aria-labelledby and     *)
(* hidden, and for the root its two data- attributes.  Element ids are     *)
(* unique (controller i has id ControllerId(i), container j ContainerId(j)) *)
(* while the reference attributes are arbitrary: they may name any id of   *)
(* the other kind or nothing at all.                                       *)
(***************************************************************************)
EXTENDS Integers, Sequences, FiniteSets

\* Bounds of the model: how many buttons and sections the markup holds, and
\* how many of their reference attributes depart from the accordion pattern.
NumControllers == 2
NumContainers == 2
MaxBrokenReferences == 1

ControllerIndex == 1..NumControllers
ContainerIndex == 1..NumContainers

\* The id attribute of the elements, and a reference that names no element.
ControllerId(c) == <<"button", c>>
ContainerId(k) == <<"section", k>>
NoId == <<"none", 0>>

\* getAttribute("aria-expanded"): the attribute may be absent from the markup.
ExpandedValues == {"absent", "false", "true"}

VARIABLES
    phase,        \* "markup" before new Accordion(), "ready" after it
    controllers,  \* controller index -> its attributes
    containers,   \* container index -> its attributes
    root,         \* the root's data- attributes
    console,      \* the console.error diagnostics of the last handler run
    event,        \* the last handler that ran, and the controller it ran for
    pre,          \* the attributes as they were when that handler started
    activeElement,    \* document.activeElement: a controller index, 0 = elsewhere
    classList,        \* TRUE iff the root carries accordion--is-focused
    keyboardEvent,    \* the last KeyboardEvent dispatched: key, ctrlKey, defaultPrevented
    preActiveElement, \* document.activeElement when the last handler started
    environment,      \* the build that runs, and what the root lookup yields
    call,             \* the last constructor or root-read call and its outcome
    running           \* the listeners on the call stack, innermost last

vars == <<phase, controllers, containers, root, console, event, pre,
          activeElement, classList, keyboardEvent, preActiveElement,
          environment, call, running>>

\* The element a validation call is given: its id and the reference
\* attribute validation reads from it.
NoArgument == [id |-> NoId, reference |-> NoId]

\* returned is "instance", "true", "false" or "TypeError"; length is the length
\* of the controllers and containers arrays a constructor call leaves behind
\* (-1 when they were never assigned).
NoCall == [method |-> "none", argument |-> NoArgument, returned |-> "none",
           length |-> -1]

focusVars == <<activeElement, classList, keyboardEvent, preActiveElement>>

NoKeyboardEvent == [key |-> <<>>, ctrlKey |-> FALSE, defaultPrevented |-> FALSE]

\* The part of the document a handler reads and writes, threaded through the
\* statements of a handler in program order.
Dom == [controllers |-> controllers, containers |-> containers, root |-> root,
        console |-> {}]

Snapshot == [controllers |-> controllers, containers |-> containers, root |-> root]

----------------------------------------------------------------------------
(* Queries *)

\* A variant that also takes data-accordion-toggle for permission to keep
\* many containers open.
allowManyContainers_OrToggle(dom) ==
    dom.root.dataAccordionManyContainers \/ dom.root.dataAccordionToggle

allowManyContainers(dom) == dom.root.dataAccordionManyContainers

\* A variant that reads only data-accordion-toggle.
willToggle_ToggleOnly(dom) == dom.root.dataAccordionToggle

willToggle(dom) ==
    LET manyContainers == allowManyContainers(dom)
    IN  IF manyContainers THEN manyContainers ELSE dom.root.dataAccordionToggle

isControllerExpanded(dom, c) == dom.controllers[c].ariaExpanded = "true"

isControllerDisabled(dom, c) == dom.controllers[c].ariaDisabled

\* Array.prototype.filter keeps sequence order.
RECURSIVE FilterSeq(_, _, _)
FilterSeq(n, m, keep) ==
    IF n > m THEN <<>>
    ELSE (IF n \in keep THEN <<n>> ELSE <<>>) \o FilterSeq(n + 1, m, keep)

\* A variant that filters the buttons of the live document, index 0 included,
\* instead of the array filled at construction.
getActiveControllers_LiveDocument(dom) ==
    FilterSeq(0, NumControllers,
              {c \in DOMAIN dom.controllers : isControllerExpanded(dom, c)})

getActiveControllers(dom) ==
    FilterSeq(1, NumControllers, {c \in ControllerIndex : isControllerExpanded(dom, c)})

\* A variant that takes the containers of the expanded controllers instead of
\* the containers without hidden.
getActiveContainers_OfActiveControllers(dom) ==
    FilterSeq(1, NumContainers,
              {k \in ContainerIndex :
                  \E c \in ControllerIndex :
                      /\ isControllerExpanded(dom, c)
                      /\ dom.controllers[c].ariaControls = ContainerId(k)})

getActiveContainers(dom) ==
    FilterSeq(1, NumContainers, {k \in ContainerIndex : ~dom.containers[k].hidden})

\* Array.prototype.find: the first container whose id is the controller's
\* aria-controls; 0 stands for undefined.
getContainerByController(dom, c) ==
    LET found == {k \in ContainerIndex : ContainerId(k) = dom.controllers[c].ariaControls}
    IN  IF found = {} THEN 0
        ELSE CHOOSE k \in found : \A j \in found : k <= j

----------------------------------------------------------------------------
(* Validation: the boolean result, and the diagnostic on failure *)

\* Array.prototype.some over this.controllers and over this.containers: the
\* elements are tested in sequence order until one passes.
RECURSIVE SomeControllerHasId(_, _)
SomeControllerHasId(i, id) ==
    IF i > NumControllers THEN FALSE
    ELSE IF ControllerId(i) = id THEN TRUE
    ELSE SomeControllerHasId(i + 1, id)

RECURSIVE SomeContainerHasId(_, _)
SomeContainerHasId(i, id) ==
    IF i > NumContainers THEN FALSE
    ELSE IF ContainerId(i) = id THEN TRUE
    ELSE SomeContainerHasId(i + 1, id)

\* A variant that looks for a controller whose aria-controls is the
\* container's id.
isContainerResult_ByAriaControls(dom, k) ==
    \E c \in ControllerIndex : dom.controllers[c].ariaControls = ContainerId(k)

isContainerResult(dom, k) ==
    SomeControllerHasId(1, dom.containers[k].ariaLabelledby)

\* A variant that accepts only the widget's own controllers.
isControllerResult_MembersOnly(dom, c) ==
    c \in ControllerIndex /\ SomeContainerHasId(1, dom.controllers[c].ariaControls)

isControllerResult(dom, c) ==
    SomeContainerHasId(1, dom.controllers[c].ariaControls)

Report(dom, what, element) ==
    [dom EXCEPT !.console = @ \cup {<<what, element>>}]

\* A variant that fails without a diagnostic.
isContainer_Silent(dom, k) ==
    [result |-> isContainerResult(dom, k), dom |-> dom]

isContainer(dom, k) ==
    [result |-> isContainerResult(dom, k),
     dom |-> IF isContainerResult(dom, k) THEN dom ELSE Report(dom, "container", k)]

\* A variant that accepts a controller only when every controller resolves.
isController_EveryControllerResolves(dom, c) ==
    LET all == \A d \in ControllerIndex : isControllerResult(dom, d)
    IN  [result |-> all,
         dom |-> IF all THEN dom ELSE Report(dom, "controller", c)]

isController(dom, c) ==
    [result |-> isControllerResult(dom, c),
     dom |-> IF isControllerResult(dom, c) THEN dom ELSE Report(dom, "controller", c)]

----------------------------------------------------------------------------
(* Transitions of one controller *)

\* A variant whose aria-disabled guard lost its negation.
activateContainerByController_DisabledWhenToggle(dom, c) ==
    LET v == isController(dom, c)
    IN  IF v.result
        THEN LET container == getContainerByController(v.dom, c)
                 w == isContainer(v.dom, container)
             IN  IF w.result
                 THEN [w.dom EXCEPT
                         !.controllers[c].ariaExpanded = "true",
                         !.containers[container].hidden = FALSE,
                         !.controllers[c].ariaDisabled =
                             IF willToggle(w.dom) THEN TRUE ELSE @]
                 ELSE w.dom
        ELSE v.dom

activateContainerByController(dom, c) ==
    LET v == isController(dom, c)
    IN  IF v.result
        THEN LET container == getContainerByController(v.dom, c)
                 w == isContainer(v.dom, container)
             IN  IF w.result
                 THEN [w.dom EXCEPT
                         !.controllers[c].ariaExpanded = "true",
                         !.containers[container].hidden = FALSE,
                         !.controllers[c].ariaDisabled =
                             IF ~willToggle(w.dom) THEN TRUE ELSE @]
                 ELSE w.dom
        ELSE v.dom

\* A variant that never removes aria-disabled.
deactivateContainerByController_KeepDisabled(dom, c) ==
    LET v == isController(dom, c)
    IN  IF v.result
        THEN LET container == getContainerByController(v.dom, c)
                 w == isContainer(v.dom, container)
             IN  IF w.result
                 THEN [w.dom EXCEPT
                         !.controllers[c].ariaExpanded = "false",
                         !.containers[container].hidden = TRUE]
                 ELSE w.dom
        ELSE v.dom

\* A variant that also removes aria-controls from the controller it
\* collapses.
deactivateContainerByController_Unlinks(dom, c) ==
    LET v == isController(dom, c)
    IN  IF v.result
        THEN LET container == getContainerByController(v.dom, c)
                 w == isContainer(v.dom, container)
             IN  IF w.result
                 THEN [w.dom EXCEPT
                         !.controllers[c].ariaExpanded = "false",
                         !.controllers[c].ariaControls = NoId,
                         !.containers[container].hidden = TRUE,
                         !.controllers[c].ariaDisabled =
                             IF ~willToggle(w.dom) THEN FALSE ELSE @]
                 ELSE w.dom
        ELSE v.dom

deactivateContainerByController(dom, c) ==
    LET v == isController(dom, c)
    IN  IF v.result
        THEN LET container == getContainerByController(v.dom, c)
                 w == isContainer(v.dom, container)
             IN  IF w.result
                 THEN [w.dom EXCEPT
                         !.controllers[c].ariaExpanded = "false",
                         !.containers[container].hidden = TRUE,
                         !.controllers[c].ariaDisabled =
                             IF ~willToggle(w.dom) THEN FALSE ELSE @]
                 ELSE w.dom
        ELSE v.dom

\* forEach over an array computed before the loop starts.
RECURSIVE DeactivateEach(_, _)
DeactivateEach(dom, list) ==
    IF list = <<>> THEN dom
    ELSE DeactivateEach(deactivateContainerByController(dom, Head(list)), Tail(list))

RECURSIVE Without(_, _)
Without(list, c) ==
    IF list = <<>> THEN <<>>
    ELSE (IF Head(list) # c THEN <<Head(list)>> ELSE <<>>) \o Without(Tail(list), c)

\* A variant that never collapses the other controllers.
updateContainerByControllerDom_KeepOthers(dom, c) ==
    IF ~isControllerExpanded(dom, c)
    THEN activateContainerByController(dom, c)
    ELSE IF willToggle(dom) /\ isControllerExpanded(dom, c)
         THEN deactivateContainerByController(dom, c)
         ELSE dom

\* A variant that collapses the other controllers whatever the root says.
updateContainerByControllerDom_CollapseOthers(dom, c) ==
    LET others == DeactivateEach(dom, Without(getActiveControllers(dom), c))
    IN  IF ~isControllerExpanded(others, c)
        THEN activateContainerByController(others, c)
        ELSE IF willToggle(others) /\ isControllerExpanded(others, c)
             THEN deactivateContainerByController(others, c)
             ELSE others

\* A variant that collapses an expanded controller whatever the root says.
updateContainerByControllerDom_AlwaysToggle(dom, c) ==
    LET others == IF ~allowManyContainers(dom)
                  THEN DeactivateEach(dom, Without(getActiveControllers(dom), c))
                  ELSE dom
    IN  IF ~isControllerExpanded(others, c)
        THEN activateContainerByController(others, c)
        ELSE deactivateContainerByController(others, c)

updateContainerByControllerDom(dom, c) ==
    LET others == IF ~allowManyContainers(dom)
                  THEN DeactivateEach(dom, Without(getActiveControllers(dom), c))
                  ELSE dom
    IN  IF ~isControllerExpanded(others, c)
        THEN activateContainerByController(others, c)
        ELSE IF willToggle(others) /\ isControllerExpanded(others, c)
             THEN deactivateContainerByController(others, c)
             ELSE others

\* A variant whose filter forgets the controllers without aria-expanded.
defaultContainersByControllers_FalseOnly(dom) ==
    DeactivateEach(dom,
        FilterSeq(1, NumControllers,
            {c \in ControllerIndex : dom.controllers[c].ariaExpanded = "false"}))

\* A variant that also applies the single-open rule: without
\* data-accordion-many-containers it collapses every expanded controller
\* after the first.
defaultContainersByControllers_SingleOpen(dom) ==
    LET collapsed == DeactivateEach(dom,
                        FilterSeq(1, NumControllers,
                            {c \in ControllerIndex :
                                dom.controllers[c].ariaExpanded # "true"}))
        active == getActiveControllers(collapsed)
    IN  IF allowManyContainers(collapsed) \/ active = <<>> THEN collapsed
        ELSE DeactivateEach(collapsed, Tail(active))

\* A variant that also reveals the container of every controller the markup
\* expands.
defaultContainersByControllers_RevealsExpanded(dom) ==
    LET collapsed == DeactivateEach(dom,
                        FilterSeq(1, NumControllers,
                            {c \in ControllerIndex :
                                dom.controllers[c].ariaExpanded # "true"}))
    IN  [collapsed EXCEPT !.containers =
            [k \in ContainerIndex |->
                IF \E c \in ControllerIndex :
                       /\ collapsed.controllers[c].ariaExpanded = "true"
                       /\ collapsed.controllers[c].ariaControls = ContainerId(k)
                THEN [@[k] EXCEPT !.hidden = FALSE]
                ELSE @[k]]]

defaultContainersByControllers(dom) ==
    DeactivateEach(dom,
        FilterSeq(1, NumControllers,
            {c \in ControllerIndex : dom.controllers[c].ariaExpanded = "absent"
                                     \/ dom.controllers[c].ariaExpanded = "false"}))

----------------------------------------------------------------------------
(* The state machine *)

ControllerMarkup ==
    [ariaControls : {ContainerId(k) : k \in ContainerIndex} \cup {NoId},
     ariaExpanded : ExpandedValues,
     ariaDisabled : BOOLEAN]

ContainerMarkup ==
    [ariaLabelledby : {ControllerId(c) : c \in ControllerIndex} \cup {NoId},
     hidden : BOOLEAN]

RootMarkup == [dataAccordionToggle : BOOLEAN, dataAccordionManyContainers : BOOLEAN]

\* The markup the model starts from is the accordion pattern, in which button
\* i and section i name each other, with at most MaxBrokenReferences reference
\* attributes that name another element or none.  aria-expanded, hidden and
\* the root flags are arbitrary; aria-disabled is absent from the markup (the
\* handlers add it).
CanonicalControls(c) == IF c \in ContainerIndex THEN ContainerId(c) ELSE NoId
CanonicalLabelledby(k) == IF k \in ControllerIndex THEN ControllerId(k) ELSE NoId

BrokenReferences(controls, labelledby) ==
    Cardinality({c \in ControllerIndex : controls[c] # CanonicalControls(c)})
    + Cardinality({k \in ContainerIndex : labelledby[k] # CanonicalLabelledby(k)})

Init ==
    /\ phase = "markup"
    /\ \E controls \in [ControllerIndex -> {ContainerId(k) : k \in ContainerIndex} \cup {NoId}],
          labelledby \in [ContainerIndex -> {ControllerId(c) : c \in ControllerIndex} \cup {NoId}] :
          /\ BrokenReferences(controls, labelledby) <= MaxBrokenReferences
          /\ \E expanded \in [ControllerIndex -> ExpandedValues],
                hidden \in [ContainerIndex -> BOOLEAN] :
                /\ controllers = [c \in ControllerIndex |->
                                    [ariaControls |-> controls[c],
                                     ariaExpanded |-> expanded[c],
                                     ariaDisabled |-> FALSE]]
                /\ containers = [k \in ContainerIndex |->
                                    [ariaLabelledby |-> labelledby[k],
                                     hidden |-> hidden[k]]]
    /\ root \in RootMarkup
    /\ console = {}
    /\ event = [type |-> "none", target |-> 0]
    /\ pre = Snapshot
    /\ activeElement = 0
    /\ classList = FALSE
    /\ keyboardEvent = NoKeyboardEvent
    /\ preActiveElement = 0
    /\ environment = [build |-> "accordion.ts", root |-> "element"]
    /\ call = NoCall
    /\ running = <<>>

Commit(dom, type, target) ==
    /\ controllers' = dom.controllers
    /\ containers' = dom.containers
    /\ root' = dom.root
    /\ console' = dom.console
    /\ event' = [type |-> type, target |-> target]
    /\ pre' = Snapshot
    /\ UNCHANGED focusVars
    /\ UNCHANGED <<environment, call, running>>

\* new Accordion(): initialize runs defaultContainersByControllers.
Construct ==
    /\ phase = "markup"
    /\ phase' = "ready"
    /\ Commit(defaultContainersByControllers(Dom), "construct", 0)

\* The click listener of controller c.
updateContainerByController(c) ==
    /\ phase = "ready"
    /\ phase' = phase
    /\ Commit(updateContainerByControllerDom(Dom, c), "click", c)

\* The change listener of #accordion-toggle.
toggleAccordionToggleState(checked) ==
    /\ phase = "ready"
    /\ phase' = phase
    /\ Commit([Dom EXCEPT !.root.dataAccordionToggle = checked], "toggle", 0)

\* The change listener of #accordion-many-containers.
toggleAccordionContainerState(checked) ==
    /\ phase = "ready"
    /\ phase' = phase
    /\ Commit([Dom EXCEPT !.root.dataAccordionManyContainers = checked], "many", 0)

Next ==
    \/ Construct
    \/ \E c \in ControllerIndex : updateContainerByController(c)
    \/ \E checked \in BOOLEAN : toggleAccordionToggleState(checked)
    \/ \E checked \in BOOLEAN : toggleAccordionContainerState(checked)

Spec == Init /\ [][Next]_vars

TypeOK ==
    /\ phase \in {"markup", "ready", "degraded", "thrown"}
    /\ controllers \in [ControllerIndex -> ControllerMarkup]
    /\ containers \in [ContainerIndex -> ContainerMarkup]
    /\ root \in RootMarkup

----------------------------------------------------------------------------
(* Vocabulary of the properties *)

\* Controller c and container k name each other in the document s.
ValidPair(s, c, k) ==
    /\ s.controllers[c].ariaControls = ContainerId(k)
    /\ s.containers[k].ariaLabelledby = ControllerId(c)

Paired(s, c) == \E k \in ContainerIndex : ValidPair(s, c, k)

Expanded(s, c) == s.controllers[c].ariaExpanded = "true"

NeitherFlag(s) == ~s.root.dataAccordionToggle /\ ~s.root.dataAccordionManyContainers

\* The last handler was the click listener of controller c.
Clicked(c) == phase = "ready" /\ event.type = "click" /\ event.target = c

Constructed == phase = "ready" /\ event.type = "construct"

----------------------------------------------------------------------------
(* C1 *)

\* C1 (as stated): after construction and any clicks, for every controller C
\* and container K that name each other, K lacks hidden iff C's aria-expanded
\* is "true", whatever the initial markup.
C1_VisibleIffExpanded ==
    phase = "ready" =>
        \A c \in ControllerIndex, k \in ContainerIndex :
            ValidPair(Snapshot, c, k) => (~containers[k].hidden <=> Expanded(Snapshot, c))

----------------------------------------------------------------------------
(* C2 *)

\* C2 (as stated): without data-accordion-many-containers, a click on B while
\* a different controller A is expanded ends with A "false" and B "true", for
\* every pair of distinct controllers A and B.
C2_SingleOpenEveryPair ==
    \A a \in ControllerIndex, b \in ControllerIndex :
        (/\ a # b
         /\ Clicked(b)
         /\ ~pre.root.dataAccordionManyContainers
         /\ Expanded(pre, a))
        => (/\ controllers[a].ariaExpanded = "false"
            /\ controllers[b].ariaExpanded = "true")

\* C2 (amended): without data-accordion-many-containers, a click on a
\* collapsed, validly paired controller B while a different validly paired
\* controller A is expanded ends with A "false" and B "true", so the two are
\* not both expanded after the call.
C2_SingleOpenPaired ==
    \A a \in ControllerIndex, b \in ControllerIndex :
        (/\ a # b
         /\ Clicked(b)
         /\ ~pre.root.dataAccordionManyContainers
         /\ Expanded(pre, a) /\ Paired(pre, a)
         /\ ~Expanded(pre, b) /\ Paired(pre, b))
        => (/\ controllers[a].ariaExpanded = "false"
            /\ controllers[b].ariaExpanded = "true"
            /\ ~(Expanded(Snapshot, a) /\ Expanded(Snapshot, b)))

C2_Witness ==
    \E a \in ControllerIndex, b \in ControllerIndex :
        /\ a # b
        /\ Clicked(b)
        /\ ~pre.root.dataAccordionManyContainers
        /\ Expanded(pre, a) /\ Paired(pre, a)
        /\ ~Expanded(pre, b) /\ Paired(pre, b)
        /\ controllers[a].ariaExpanded = "false"
        /\ controllers[b].ariaExpanded = "true"

----------------------------------------------------------------------------
(* C3 *)

\* C3 (as stated): with data-accordion-many-containers, a click on a collapsed
\* controller B while a different controller A is expanded leaves both
\* expanded, both their containers without hidden and neither controller with
\* aria-disabled.
C3_ManyOpenEveryPair ==
    \A a \in ControllerIndex, b \in ControllerIndex :
        (/\ a # b
         /\ Clicked(b)
         /\ pre.root.dataAccordionManyContainers
         /\ Expanded(pre, a)
         /\ ~Expanded(pre, b))
        => (/\ Expanded(Snapshot, a) /\ Expanded(Snapshot, b)
            /\ \A k \in ContainerIndex :
                   (\/ pre.controllers[a].ariaControls = ContainerId(k)
                    \/ pre.controllers[b].ariaControls = ContainerId(k))
                   => ~containers[k].hidden
            /\ ~controllers[a].ariaDisabled /\ ~controllers[b].ariaDisabled)

\* C3 (amended): with data-accordion-many-containers, a click on a collapsed,
\* validly paired controller B while a different controller A is expanded
\* leaves both with aria-expanded "true" and B's container without hidden,
\* hides no container (A's container is without hidden if it was before the
\* call) and changes the aria-disabled of neither controller (neither carries
\* it afterwards unless it carried it before).
C3_ManyOpenPaired ==
    \A a \in ControllerIndex, b \in ControllerIndex :
        (/\ a # b
         /\ Clicked(b)
         /\ pre.root.dataAccordionManyContainers
         /\ Expanded(pre, a)
         /\ ~Expanded(pre, b) /\ Paired(pre, b))
        => (/\ Expanded(Snapshot, a) /\ Expanded(Snapshot, b)
            /\ \A k \in ContainerIndex : ValidPair(pre, b, k) => ~containers[k].hidden
            /\ \A k \in ContainerIndex : ~pre.containers[k].hidden => ~containers[k].hidden
            /\ controllers[a].ariaDisabled = pre.controllers[a].ariaDisabled
            /\ controllers[b].ariaDisabled = pre.controllers[b].ariaDisabled)

C3_Witness ==
    \E a \in ControllerIndex, b \in ControllerIndex :
        /\ a # b
        /\ Clicked(b)
        /\ pre.root.dataAccordionManyContainers
        /\ Expanded(pre, a) /\ Paired(pre, a)
        /\ ~Expanded(pre, b) /\ Paired(pre, b)
        /\ Expanded(Snapshot, a) /\ Expanded(Snapshot, b)
        /\ \A k \in ContainerIndex :
               (ValidPair(pre, a, k) \/ ValidPair(pre, b, k)) => ~containers[k].hidden
        /\ ~controllers[a].ariaDisabled /\ ~controllers[b].ariaDisabled

----------------------------------------------------------------------------
(* C4 *)

\* C4 (as stated): a click on a controller whose aria-controls names no
\* container id leaves every attribute of every controller, every container
\* and the root unchanged and reports a validation failure, in every
\* reachable state.
C4_BrokenClickChangesNothing ==
    \A c \in ControllerIndex :
        (Clicked(c) /\ ~isControllerResult(pre, c))
        => (/\ Snapshot = pre
            /\ <<"controller", c>> \in console)

----------------------------------------------------------------------------
(* C5 *)

\* C5 (as stated): a transition of controller C shows or hides a container K,
\* and changes C's aria-expanded, only when C's aria-controls is K's id and
\* K's aria-labelledby is C's id.  With data-accordion-many-containers a click
\* on C runs the transition of C alone; in every handler a container that
\* changes must be paired with some controller and a controller that changes
\* must be paired with some container.
C5_OnlyValidPairsChange ==
    /\ \A c \in ControllerIndex :
           (Clicked(c) /\ pre.root.dataAccordionManyContainers)
           => (/\ \A k \in ContainerIndex :
                      containers[k].hidden # pre.containers[k].hidden
                      => ValidPair(pre, c, k)
               /\ controllers[c].ariaExpanded # pre.controllers[c].ariaExpanded
                      => Paired(pre, c))
    /\ phase = "ready" =>
           /\ \A k \in ContainerIndex :
                  containers[k].hidden # pre.containers[k].hidden
                  => \E c \in ControllerIndex : ValidPair(pre, c, k)
           /\ \A c \in ControllerIndex :
                  controllers[c].ariaExpanded # pre.controllers[c].ariaExpanded
                  => Paired(pre, c)

----------------------------------------------------------------------------
(* C6 *)

\* C6: a click on a validly paired controller whose aria-expanded is not
\* "true" sets its aria-expanded to "true" and removes hidden from its
\* container; it sets aria-disabled on the controller when neither root flag
\* is present and leaves aria-disabled as it was otherwise.
C6_ActivateCollapsed ==
    \A c \in ControllerIndex :
        (Clicked(c) /\ Paired(pre, c) /\ ~Expanded(pre, c))
        => (/\ controllers[c].ariaExpanded = "true"
            /\ \A k \in ContainerIndex : ValidPair(pre, c, k) => ~containers[k].hidden
            /\ NeitherFlag(pre) => controllers[c].ariaDisabled
            /\ ~NeitherFlag(pre) =>
                   controllers[c].ariaDisabled = pre.controllers[c].ariaDisabled)

C6_Witness ==
    \E c \in ControllerIndex, k \in ContainerIndex :
        /\ Clicked(c)
        /\ ValidPair(pre, c, k)
        /\ ~Expanded(pre, c)
        /\ pre.containers[k].hidden
        /\ ~pre.controllers[c].ariaDisabled
        /\ NeitherFlag(pre)
        /\ controllers[c].ariaExpanded = "true"
        /\ ~containers[k].hidden
        /\ controllers[c].ariaDisabled

----------------------------------------------------------------------------
(* C7 *)

\* C7 (as stated): whenever a click collapses an expanded, validly paired
\* controller because toggling is allowed, the controller afterwards has
\* aria-expanded "false", its container has hidden and the controller has no
\* aria-disabled.
C7_CollapseClearsDisabled ==
    \A c \in ControllerIndex :
        (Clicked(c) /\ Paired(pre, c) /\ Expanded(pre, c) /\ willToggle(pre))
        => (/\ controllers[c].ariaExpanded = "false"
            /\ \A k \in ContainerIndex : ValidPair(pre, c, k) => containers[k].hidden
            /\ ~controllers[c].ariaDisabled)

----------------------------------------------------------------------------
(* C8 *)

\* C8 (as stated): a click on a controller whose aria-expanded is "true",
\* with neither root flag present, leaves that controller's aria-expanded and
\* aria-disabled and its paired container's hidden unchanged.
C8_ExpandedClickIsNoOp ==
    \A c \in ControllerIndex :
        (Clicked(c) /\ Expanded(pre, c) /\ NeitherFlag(pre))
        => (/\ controllers[c].ariaExpanded = pre.controllers[c].ariaExpanded
            /\ controllers[c].ariaDisabled = pre.controllers[c].ariaDisabled
            /\ \A k \in ContainerIndex :
                   ValidPair(pre, c, k) => containers[k].hidden = pre.containers[k].hidden)

----------------------------------------------------------------------------
(* C9 *)

----------------------------------------------------------------------------
(* C10 *)

\* C10 (as stated): when the markup holds at least one valid pair, right
\* after construction every controller whose aria-expanded was not "true" in
\* the markup has aria-expanded "false" and the container it references is
\* hidden, for all controllers of the widget.
C10_DefaultCollapseEveryController ==
    (Constructed /\ \E c \in ControllerIndex : Paired(pre, c))
    => \A c \in ControllerIndex :
           ~Expanded(pre, c)
           => (/\ controllers[c].ariaExpanded = "false"
               /\ \A k \in ContainerIndex :
                      pre.controllers[c].ariaControls = ContainerId(k)
                      => containers[k].hidden)

\* C10 (amended): right after construction every validly paired controller
\* whose aria-expanded was not "true" in the markup has aria-expanded "false"
\* and its container is hidden.
C10_DefaultCollapsePaired ==
    Constructed
    => \A c \in ControllerIndex :
           (Paired(pre, c) /\ ~Expanded(pre, c))
           => (/\ controllers[c].ariaExpanded = "false"
               /\ \A k \in ContainerIndex : ValidPair(pre, c, k) => containers[k].hidden)

C10_Witness ==
    /\ Constructed
    /\ \E c \in ControllerIndex, k \in ContainerIndex :
           /\ ValidPair(pre, c, k)
           /\ pre.controllers[c].ariaExpanded = "absent"
           /\ ~pre.containers[k].hidden
           /\ controllers[c].ariaExpanded = "false"
           /\ containers[k].hidden

----------------------------------------------------------------------------
(* C11 *)

\* C11 (as stated): with toggling allowed, two consecutive clicks on the same
\* validly paired, collapsed controller return its aria-expanded and
\* aria-disabled and its container's hidden to the values they had before the
\* first click.
C11_ToggleRoundTrip ==
    [][\A c \in ControllerIndex :
          (/\ Clicked(c)
           /\ Paired(pre, c) /\ ~Expanded(pre, c) /\ willToggle(pre)
           /\ event'.type = "click" /\ event'.target = c)
          => (/\ controllers'[c].ariaExpanded = pre.controllers[c].ariaExpanded
              /\ controllers'[c].ariaDisabled = pre.controllers[c].ariaDisabled
              /\ \A k \in ContainerIndex :
                     ValidPair(pre, c, k)
                     => containers'[k].hidden = pre.containers[k].hidden)]_vars

----------------------------------------------------------------------------
(* C12 *)

\* Every button i and section i name each other (the markup of the scenario).
Canonical(s) ==
    /\ NumControllers = NumContainers
    /\ \A c \in ControllerIndex : ValidPair(s, c, c)

\* C1 expanded and disabled, K1 visible, C2 collapsed, K2 hidden.
FirstOpen(s) ==
    /\ s.controllers[1].ariaExpanded = "true"
    /\ s.controllers[1].ariaDisabled
    /\ ~s.containers[1].hidden
    /\ s.controllers[2].ariaExpanded = "false"
    /\ s.containers[2].hidden

\* C1 collapsed without aria-disabled, K1 hidden, C2 expanded and disabled,
\* K2 visible.
SecondOpen(s) ==
    /\ s.controllers[1].ariaExpanded = "false"
    /\ ~s.controllers[1].ariaDisabled
    /\ s.containers[1].hidden
    /\ s.controllers[2].ariaExpanded = "true"
    /\ s.controllers[2].ariaDisabled
    /\ ~s.containers[2].hidden

FirstClickOpens ==
    (/\ Constructed /\ Canonical(Snapshot) /\ NeitherFlag(Snapshot)
     /\ event'.type = "click" /\ event'.target = 1)
    => FirstOpen([controllers |-> controllers', containers |-> containers',
                  root |-> root'])

SecondClickSwaps ==
    (/\ Clicked(1) /\ Canonical(Snapshot) /\ NeitherFlag(Snapshot)
     /\ FirstOpen(Snapshot)
     /\ event'.type = "click" /\ event'.target = 2)
    => SecondOpen([controllers |-> controllers', containers |-> containers',
                   root |-> root'])

\* C12 (as stated): for the widget C1/K1, C2/K2 with neither root flag, after
\* construction and a click on C1, C1 is expanded and disabled, K1 is visible,
\* C2 is collapsed and K2 hidden; after a following click on C2, C1 is
\* collapsed with aria-disabled removed, K1 hidden, C2 expanded and disabled
\* and K2 visible.
C12_ScenarioAnyMarkup ==
    [][FirstClickOpens /\ SecondClickSwaps]_vars

\* C12 (amended): the same, for markup in which C1 does not start with
\* aria-expanded "true".
C12_ScenarioCollapsedStart ==
    [][(~Expanded(Snapshot, 1) => FirstClickOpens) /\ SecondClickSwaps]_vars

C12_Witness ==
    /\ Clicked(2)
    /\ Canonical(pre) /\ NeitherFlag(pre)
    /\ FirstOpen(pre)
    /\ SecondOpen(Snapshot)

----------------------------------------------------------------------------
(* C19 *)

\* C19: while some other controller has an unresolved or non-reciprocal
\* reference, a click on a validly paired controller still expands it when
\* it is collapsed and collapses it when it is expanded and toggling is
\* allowed.
C19_BrokenPairDoesNotDisableOthers ==
    \A c \in ControllerIndex :
        (/\ Clicked(c)
         /\ Paired(pre, c)
         /\ \E d \in ControllerIndex : d # c /\ ~Paired(pre, d))
        => (/\ ~Expanded(pre, c)
                => (/\ controllers[c].ariaExpanded = "true"
                    /\ \A k \in ContainerIndex :
                           ValidPair(pre, c, k) => ~containers[k].hidden)
            /\ (Expanded(pre, c) /\ willToggle(pre))
                => (/\ controllers[c].ariaExpanded = "false"
                    /\ \A k \in ContainerIndex :
                           ValidPair(pre, c, k) => containers[k].hidden))

C19_Witness ==
    \E c \in ControllerIndex, d \in ControllerIndex :
        /\ c # d
        /\ Clicked(c)
        /\ Paired(pre, c) /\ ~Expanded(pre, c)
        /\ ~Paired(pre, d) /\ Expanded(pre, d)
        /\ controllers[c].ariaExpanded = "true"

----------------------------------------------------------------------------
(* C20 *)

Resolves(s, c) ==
    \E k \in ContainerIndex : s.controllers[c].ariaControls = ContainerId(k)

Labelled(s, k) ==
    \E c \in ControllerIndex : s.containers[k].ariaLabelledby = ControllerId(c)

\* The controllers whose activation or deactivation the last handler ran.
Attempted ==
    IF Constructed
    THEN {d \in ControllerIndex : ~Expanded(pre, d)}
    ELSE IF phase = "ready" /\ event.type = "click"
    THEN {d \in ControllerIndex :
              \/ (/\ d # event.target
                  /\ ~pre.root.dataAccordionManyContainers
                  /\ Expanded(pre, d))
              \/ (/\ d = event.target
                  /\ (~Expanded(pre, d) \/ willToggle(pre)))}
    ELSE {}

\* The diagnostic an aborted transition of d must leave on the console.
Offence(d) ==
    IF ~Resolves(pre, d) THEN {<<"controller", d>>}
    ELSE {<<"container", k>> : k \in {j \in ContainerIndex :
              /\ pre.controllers[d].ariaControls = ContainerId(j)
              /\ ~Labelled(pre, j)}}

\* C20: every activation or deactivation that validation aborts puts on the
\* console the controller whose aria-controls matches no container id, or the
\* container whose aria-labelledby matches no controller id, and the failing
\* validation returns false; the aborted transition changes nothing of its
\* controller, and nothing else is reported.
C20_AbortedTransitionsAreReported ==
    /\ \A d \in Attempted :
           Offence(d) # {}
           => (/\ Offence(d) \subseteq console
               /\ controllers[d] = pre.controllers[d]
               /\ ~Resolves(pre, d) => ~isController(Dom, d).result
               /\ \A k \in ContainerIndex :
                      <<"container", k>> \in Offence(d) => ~isContainer(Dom, k).result)
    /\ console = UNION {Offence(d) : d \in Attempted}

C20_Witness ==
    /\ phase = "ready" /\ event.type = "click"
    /\ \E d \in Attempted, k \in ContainerIndex :
           /\ Expanded(pre, d)
           /\ <<"container", k>> \in console
           /\ controllers[d] = pre.controllers[d]

----------------------------------------------------------------------------
\* The validation operations as public methods, called on a constructed
\* widget whose references are arbitrary.
InitValidation ==
    /\ phase = "ready"
    /\ \E controls \in [ControllerIndex -> {ContainerId(k) : k \in ContainerIndex} \cup {NoId}],
          labelledby \in [ContainerIndex -> {ControllerId(c) : c \in ControllerIndex} \cup {NoId}] :
          /\ controllers = [c \in ControllerIndex |->
                              [ariaControls |-> controls[c],
                               ariaExpanded |-> "false",
                               ariaDisabled |-> FALSE]]
          /\ containers = [k \in ContainerIndex |->
                              [ariaLabelledby |-> labelledby[k], hidden |-> TRUE]]
    /\ root = [dataAccordionToggle |-> FALSE, dataAccordionManyContainers |-> FALSE]
    /\ console = {}
    /\ event = [type |-> "none", target |-> 0]
    /\ pre = Snapshot
    /\ activeElement = 0
    /\ classList = FALSE
    /\ keyboardEvent = NoKeyboardEvent
    /\ preActiveElement = 0
    /\ environment = [build |-> "accordion.ts", root |-> "element"]
    /\ call = NoCall
    /\ running = <<>>

\* A button that is not in the widget's controllers sequence, as argument 0.
WithForeignController(dom, ref) ==
    [dom EXCEPT !.controllers =
        [i \in {0} \cup ControllerIndex |->
            IF i = 0
            THEN [ariaControls |-> ref, ariaExpanded |-> "absent", ariaDisabled |-> FALSE]
            ELSE dom.controllers[i]]]

CommitCall(validated, method, target, argument) ==
    /\ call' = [method |-> method, argument |-> argument,
                returned |-> IF validated.result THEN "true" ELSE "false",
                length |-> call.length]
    /\ console' = validated.dom.console
    /\ event' = [type |-> method, target |-> target]
    /\ pre' = Snapshot
    /\ UNCHANGED <<phase, controllers, containers, root, environment, running>>
    /\ UNCHANGED focusVars

\* accordion.isContainer(container) on the widget's container k.
CallIsContainer(k) ==
    /\ phase = "ready"
    /\ CommitCall(isContainer(Dom, k), "isContainer", k,
                  [id |-> ContainerId(k), reference |-> containers[k].ariaLabelledby])

\* accordion.isController(controller) on the widget's controller c, or on a
\* button outside the widget (c = 0) whose aria-controls is ref.
CallIsController(c, ref) ==
    /\ phase = "ready"
    /\ c \in ControllerIndex => ref = controllers[c].ariaControls
    /\ CommitCall(isController(IF c = 0 THEN WithForeignController(Dom, ref) ELSE Dom, c),
                  "isController", c,
                  [id |-> ControllerId(c), reference |-> ref])

NextValidation ==
    \/ \E k \in ContainerIndex : CallIsContainer(k)
    \/ \E c \in {0} \cup ControllerIndex,
          ref \in {ContainerId(k) : k \in ContainerIndex} \cup {NoId} :
          CallIsController(c, ref)

SpecValidation == InitValidation /\ [][NextValidation]_vars

----------------------------------------------------------------------------
(* C17 *)

\* C17 (as stated): isContainer(container) is true iff some controller of the
\* widget has an aria-controls equal to the container's id.
C17_IsContainerByAriaControls ==
    event.type = "isContainer" =>
        (call.returned = "true"
         <=> \E c \in ControllerIndex : controllers[c].ariaControls = call.argument.id)

\* C17 (amended): isContainer(container) is true iff some controller of the
\* widget has an id equal to the container's aria-labelledby; when it is
\* false the container is reported on the console.
C17_IsContainerByLabelledby ==
    /\ \A k \in ContainerIndex :
           isContainer(Dom, k).result
           <=> \E c \in ControllerIndex : ControllerId(c) = containers[k].ariaLabelledby
    /\ event.type = "isContainer" =>
           /\ call.returned = "true"
              <=> \E c \in ControllerIndex : ControllerId(c) = call.argument.reference
           /\ call.returned = "false" <=> <<"container", event.target>> \in console

C17_Witness ==
    /\ event.type = "isContainer"
    /\ call.returned = "true"
    /\ \A c \in ControllerIndex : controllers[c].ariaControls # call.argument.id

----------------------------------------------------------------------------
(* C18 *)

\* C18: isController(controller) is true iff some container of the widget
\* has an id equal to the controller's aria-controls, for the widget's own
\* controllers and for a button outside its controllers sequence alike.
C18_IsControllerByAriaControls ==
    event.type = "isController" =>
        (call.returned = "true"
         <=> \E k \in ContainerIndex : ContainerId(k) = call.argument.reference)

C18_Witness ==
    /\ event.type = "isController"
    /\ event.target = 0
    /\ call.returned = "true"
    /\ \E c \in ControllerIndex : ~isController(Dom, c).result

------------------------------------------------------------------------------
\* Keyboard navigation and focus (accordion.ts 78-242).

\* KeyboardEvent.key values, spelled character by character so that
\* toLowerCase and the regular expressions act on their text.
KeyArrowUp == <<"A", "r", "r", "o", "w", "U", "p">>
KeyArrowDown == <<"A", "r", "r", "o", "w", "D", "o", "w", "n">>
KeyUp == <<"U", "p">>
KeyDown == <<"D", "o", "w", "n">>
KeyPageUp == <<"P", "a", "g", "e", "U", "p">>
KeyPageDown == <<"P", "a", "g", "e", "D", "o", "w", "n">>
KeyHome == <<"H", "o", "m", "e">>
KeyEnd == <<"E", "n", "d">>
KeyEnter == <<"E", "n", "t", "e", "r">>
KeySpace == <<" ">>
KeyTab == <<"T", "a", "b">>
KeyBrowserHome == <<"B", "r", "o", "w", "s", "e", "r", "H", "o", "m", "e">>
KeyLaunchCalendar == <<"L", "a", "u", "n", "c", "h", "C", "a", "l", "e", "n", "d", "a", "r">>

KeyNames == {KeyArrowUp, KeyArrowDown, KeyUp, KeyDown, KeyPageUp, KeyPageDown,
             KeyHome, KeyEnd, KeyEnter, KeySpace, KeyTab, KeyBrowserHome,
             KeyLaunchCalendar}

\* String.prototype.toLowerCase on one character.
toLowerCaseChar(ch) ==
    CASE ch = "A" -> "a" [] ch = "B" -> "b" [] ch = "C" -> "c" [] ch = "D" -> "d"
      [] ch = "E" -> "e" [] ch = "F" -> "f" [] ch = "G" -> "g" [] ch = "H" -> "h"
      [] ch = "I" -> "i" [] ch = "J" -> "j" [] ch = "K" -> "k" [] ch = "L" -> "l"
      [] ch = "M" -> "m" [] ch = "N" -> "n" [] ch = "O" -> "o" [] ch = "P" -> "p"
      [] ch = "Q" -> "q" [] ch = "R" -> "r" [] ch = "S" -> "s" [] ch = "T" -> "t"
      [] ch = "U" -> "u" [] ch = "V" -> "v" [] ch = "W" -> "w" [] ch = "X" -> "x"
      [] ch = "Y" -> "y" [] ch = "Z" -> "z" [] OTHER -> ch

toLowerCase(str) == [i \in 1..Len(str) |-> toLowerCaseChar(str[i])]

\* str.match(/word/i): the pattern has no anchors, so it matches when word
\* occurs anywhere in str, letter case ignored.
match(str, word) ==
    \E at \in 1..Len(str) :
        /\ at + Len(word) - 1 <= Len(str)
        /\ SubSeq(toLowerCase(str), at, at + Len(word) - 1) = word

isKeyup(ev) ==
    LET key == toLowerCase(ev.key)
    IN  \/ (ev.ctrlKey /\ key = <<"p", "a", "g", "e", "u", "p">>)
        \/ key = <<"a", "r", "r", "o", "w", "u", "p">>
        \/ key = <<"u", "p">>

isKeydown(ev) ==
    LET key == toLowerCase(ev.key)
    IN  \/ (ev.ctrlKey /\ key = <<"p", "a", "g", "e", "d", "o", "w", "n">>)
        \/ key = <<"a", "r", "r", "o", "w", "d", "o", "w", "n">>
        \/ key = <<"d", "o", "w", "n">>

\* context.controllers is a 0-based array: controller c sits at index c - 1.
indexOf(c) == c - 1
ControllerAt(index) == index + 1

getFirstController_Second == ControllerAt(IF NumControllers > 1 THEN 1 ELSE 0)

getFirstController == ControllerAt(0)

getLastController == ControllerAt(NumControllers - 1)

\* A variant that stops at the last controller instead of wrapping.
getNextController_NoWrap(c) ==
    LET index == indexOf(c) + 1
    IN  IF index <= NumControllers - 1 THEN ControllerAt(index) ELSE getLastController

getNextController(c) ==
    LET index == indexOf(c) + 1
    IN  IF index <= NumControllers - 1 THEN ControllerAt(index) ELSE getFirstController

\* A variant that stops at the first controller instead of wrapping.
getPrevController_NoWrap(c) ==
    LET index == indexOf(c) - 1
    IN  IF index >= 0 THEN ControllerAt(index) ELSE getFirstController

getPrevController(c) ==
    LET index == indexOf(c) - 1
    IN  IF index >= 0 THEN ControllerAt(index) ELSE getLastController

\* The focus state a handler threads through its statements.
Ui == [activeElement |-> activeElement, classList |-> classList,
       defaultPrevented |-> FALSE]

activateRoot(ui) == [ui EXCEPT !.classList = TRUE]

deactivateRoot(ui) == [ui EXCEPT !.classList = FALSE]

preventDefault(ui) == [ui EXCEPT !.defaultPrevented = TRUE]

\* A variant in which the new controller's focus listener runs before the
\* old controller's blur listener.
focus_FocusBeforeBlur(ui, c) ==
    IF ui.activeElement = c THEN ui
    ELSE LET focused == activateRoot([ui EXCEPT !.activeElement = c])
         IN  IF ui.activeElement \in ControllerIndex
             THEN deactivateRoot(focused) ELSE focused

\* HTMLElement.focus() on controller c: nothing when c already has focus;
\* otherwise the controller losing focus gets blur (deactivateRoot), then c
\* gets focus (activateRoot).
focus(ui, c) ==
    IF ui.activeElement = c THEN ui
    ELSE LET blurred == IF ui.activeElement \in ControllerIndex
                        THEN deactivateRoot(ui) ELSE ui
         IN  activateRoot([blurred EXCEPT !.activeElement = c])

\* Focus leaving the controllers for another element of the page.
blur(ui) ==
    IF ui.activeElement \in ControllerIndex
    THEN deactivateRoot([ui EXCEPT !.activeElement = 0]) ELSE ui

\* The keydown listener of controller c: four independent if statements.
navigateControllerEvent(ui, c, ev) ==
    LET s1 == IF isKeyup(ev) THEN focus(preventDefault(ui), getPrevController(c)) ELSE ui
        s2 == IF isKeydown(ev) THEN focus(preventDefault(s1), getNextController(c)) ELSE s1
        s3 == IF match(ev.key, <<"h", "o", "m", "e">>)
              THEN focus(preventDefault(s2), getFirstController) ELSE s2
        s4 == IF match(ev.key, <<"e", "n", "d">>)
              THEN focus(preventDefault(s3), getLastController) ELSE s3
    IN  s4

\* A constructed widget in the canonical markup, every pair collapsed.
InitKeys ==
    /\ phase = "ready"
    /\ controllers = [c \in ControllerIndex |->
                        [ariaControls |-> CanonicalControls(c),
                         ariaExpanded |-> "false", ariaDisabled |-> FALSE]]
    /\ containers = [k \in ContainerIndex |->
                        [ariaLabelledby |-> CanonicalLabelledby(k), hidden |-> TRUE]]
    /\ root = [dataAccordionToggle |-> FALSE, dataAccordionManyContainers |-> FALSE]
    /\ console = {}
    /\ event = [type |-> "none", target |-> 0]
    /\ pre = Snapshot
    /\ activeElement = 0
    /\ classList = FALSE
    /\ keyboardEvent = NoKeyboardEvent
    /\ preActiveElement = 0
    /\ environment = [build |-> "accordion.ts", root |-> "element"]
    /\ call = NoCall
    /\ running = <<>>

CommitUi(ui, type, target, ev) ==
    /\ activeElement' = ui.activeElement
    /\ classList' = ui.classList
    /\ keyboardEvent' = [ev EXCEPT !.defaultPrevented = ui.defaultPrevented]
    /\ preActiveElement' = activeElement
    /\ event' = [type |-> type, target |-> target]
    /\ console' = {}
    /\ pre' = Snapshot
    /\ UNCHANGED <<phase, controllers, containers, root, environment, call, running>>

\* The user moves focus to controller c (Tab, pointer).
FocusController(c) ==
    /\ phase = "ready"
    /\ activeElement # c
    /\ CommitUi(focus(Ui, c), "focus", c, NoKeyboardEvent)

\* The user moves focus from a controller to some other element.
BlurController ==
    /\ phase = "ready"
    /\ activeElement \in ControllerIndex
    /\ CommitUi(blur(Ui), "blur", activeElement, NoKeyboardEvent)

\* A key goes down while a controller has focus: its keydown listener runs.
Keydown(key, ctrlKey) ==
    /\ phase = "ready"
    /\ activeElement \in ControllerIndex
    /\ LET ev == [key |-> key, ctrlKey |-> ctrlKey, defaultPrevented |-> FALSE]
       IN  CommitUi(navigateControllerEvent(Ui, activeElement, ev),
                    "keydown", activeElement, ev)

NextKeys ==
    \/ \E c \in ControllerIndex : FocusController(c)
    \/ BlurController
    \/ \E key \in KeyNames, ctrlKey \in BOOLEAN : Keydown(key, ctrlKey)
    \/ \E c \in ControllerIndex : updateContainerByController(c)

SpecKeys == InitKeys /\ [][NextKeys]_vars

Pressed(key, ctrlKey) ==
    /\ event.type = "keydown"
    /\ keyboardEvent.key = key
    /\ keyboardEvent.ctrlKey = ctrlKey

PressedAny(key) == \E ctrlKey \in BOOLEAN : Pressed(key, ctrlKey)

\* C13: Up-arrow or Ctrl+PageUp on controller i moves focus to controller
\* i-1, or to the last controller from the first; Down-arrow or Ctrl+PageDown
\* moves it to controller i+1, or to the first controller from the last;
\* PageUp and PageDown without Ctrl move nothing.
C13_ArrowsWrap ==
    LET i == preActiveElement
    IN  /\ (PressedAny(KeyArrowUp) \/ Pressed(KeyPageUp, TRUE)) =>
               activeElement = IF i = 1 THEN NumControllers ELSE i - 1
        /\ (PressedAny(KeyArrowDown) \/ Pressed(KeyPageDown, TRUE)) =>
               activeElement = IF i = NumControllers THEN 1 ELSE i + 1
        /\ (Pressed(KeyPageUp, FALSE) \/ Pressed(KeyPageDown, FALSE)) =>
               /\ activeElement = i
               /\ ~keyboardEvent.defaultPrevented

C13_Witness ==
    /\ Pressed(KeyPageDown, TRUE)
    /\ preActiveElement = NumControllers
    /\ activeElement = 1

\* C14: Home moves focus to the first controller and End to the last one,
\* whichever controller had focus.
C14_HomeEnd ==
    /\ PressedAny(KeyHome) => activeElement = 1
    /\ PressedAny(KeyEnd) => activeElement = NumControllers

C14_Witness ==
    /\ PressedAny(KeyHome)
    /\ preActiveElement = NumControllers
    /\ activeElement = 1

NavigationKey ==
    \/ PressedAny(KeyArrowUp) \/ PressedAny(KeyUp)
    \/ PressedAny(KeyArrowDown) \/ PressedAny(KeyDown)
    \/ Pressed(KeyPageUp, TRUE) \/ Pressed(KeyPageDown, TRUE)
    \/ PressedAny(KeyHome) \/ PressedAny(KeyEnd)

------------------------------------------------------------------------------
\* Construction and root reads when the root lookup may find no element.
\* The repository ships the TypeScript source and two bundles of it; the
\* part_001 bundle guards every use of this.root, the other two do not.

Builds == {"accordion.ts", "app.es5.js", "part_001"}

GuardsRoot(build) == build = "part_001"

Bool(b) == IF b THEN "true" ELSE "false"

\* new Accordion() without an argument: this.root is the lookup's result.
\* With no root the guarded build skips both querySelectorAll calls and
\* initializes over empty arrays; the others dereference null.
constructorCall(env, dom) ==
    IF env.root = "element"
    THEN [method |-> "constructor", argument |-> NoArgument,
          returned |-> "instance", length |-> NumControllers]
    ELSE IF GuardsRoot(env.build)
         THEN [method |-> "constructor", argument |-> NoArgument,
               returned |-> "instance", length |-> 0]
         ELSE [method |-> "constructor", argument |-> NoArgument,
               returned |-> "TypeError", length |-> -1]

allowManyContainersCall(env, dom) ==
    IF env.root = "element" THEN Bool(allowManyContainers(dom))
    ELSE IF GuardsRoot(env.build) THEN "false" ELSE "TypeError"

willToggleCall(env, dom) ==
    LET manyContainers == allowManyContainersCall(env, dom)
    IN  IF manyContainers = "TypeError" THEN "TypeError"
        ELSE IF manyContainers = "true" THEN "true"
        ELSE IF env.root = "element" THEN Bool(dom.root.dataAccordionToggle)
        ELSE IF GuardsRoot(env.build) THEN "false" ELSE "TypeError"

\* Any build, a document with or without an .accordion element. With one,
\* its pairs are canonical and each section is hidden unless its button is
\* expanded.
InitRoot ==
    /\ phase = "markup"
    /\ environment \in [build : Builds, root : {"element", "null"}]
    /\ \E expanded \in [ControllerIndex -> ExpandedValues] :
          /\ environment.root = "null" => \A c \in ControllerIndex : expanded[c] = "false"
          /\ controllers = [c \in ControllerIndex |->
                              [ariaControls |-> CanonicalControls(c),
                               ariaExpanded |-> expanded[c],
                               ariaDisabled |-> FALSE]]
          /\ containers = [k \in ContainerIndex |->
                              [ariaLabelledby |-> CanonicalLabelledby(k),
                               hidden |-> IF k \in ControllerIndex
                                          THEN expanded[k] # "true" ELSE TRUE]]
    /\ root \in RootMarkup
    /\ environment.root = "null" =>
           root = [dataAccordionToggle |-> FALSE, dataAccordionManyContainers |-> FALSE]
    /\ console = {}
    /\ event = [type |-> "none", target |-> 0]
    /\ pre = Snapshot
    /\ activeElement = 0
    /\ classList = FALSE
    /\ keyboardEvent = NoKeyboardEvent
    /\ preActiveElement = 0
    /\ call = NoCall
    /\ running = <<>>

\* const accordion = new Accordion() (app.ts 32).
ConstructAccordion ==
    /\ phase = "markup"
    /\ call' = constructorCall(environment, Dom)
    /\ phase' = IF call'.returned = "TypeError" THEN "thrown"
                ELSE IF environment.root = "element" THEN "ready" ELSE "degraded"
    /\ LET dom == IF environment.root = "element"
                  THEN defaultContainersByControllers(Dom) ELSE Dom
       IN  /\ controllers' = dom.controllers
           /\ containers' = dom.containers
           /\ root' = dom.root
           /\ console' = dom.console
    /\ event' = [type |-> "construct", target |-> 0]
    /\ pre' = Snapshot
    /\ UNCHANGED focusVars
    /\ UNCHANGED <<environment, running>>

\* accordion.willToggle() or accordion.allowManyContainers() on an instance.
ReadRoot(method) ==
    /\ phase \in {"ready", "degraded"}
    /\ call' = [method |-> method,
                argument |-> NoArgument,
                returned |-> IF method = "willToggle"
                             THEN willToggleCall(environment, Dom)
                             ELSE allowManyContainersCall(environment, Dom),
                length |-> call.length]
    /\ event' = [type |-> "read", target |-> 0]
    /\ console' = {}
    /\ pre' = Snapshot
    /\ UNCHANGED <<phase, controllers, containers, root, environment, running>>
    /\ UNCHANGED focusVars

NextRoot ==
    \/ ConstructAccordion
    \/ \E method \in {"willToggle", "allowManyContainers"} : ReadRoot(method)
    \/ \E c \in ControllerIndex : updateContainerByController(c)
    \/ \E checked \in BOOLEAN : toggleAccordionToggleState(checked)
    \/ \E checked \in BOOLEAN : toggleAccordionContainerState(checked)

SpecRoot == InitRoot /\ [][NextRoot]_vars

\* C16: with no root argument and no element matching the default selector,
\* construction completes without throwing and leaves empty controllers and
\* containers sequences, and every later willToggle or allowManyContainers
\* call returns without throwing and changes nothing.
C16_MissingRootDegrades ==
    environment.root = "null" =>
        /\ phase # "thrown"
        /\ call.returned # "TypeError"
        /\ call.method # "none" => call.length = 0
        /\ event.type = "read" => Snapshot = pre

------------------------------------------------------------------------------
(* C21 *)

\* The controllers that get focus, in order, when the key is pressed times
\* times in a row, each press on the controller that then has focus.
RECURSIVE PressRepeatedly(_, _, _)
PressRepeatedly(ui, key, times) ==
    IF times = 0 THEN <<>>
    ELSE LET ev == [key |-> key, ctrlKey |-> FALSE, defaultPrevented |-> FALSE]
             next == navigateControllerEvent(ui, ui.activeElement, ev)
         IN  <<next.activeElement>> \o PressRepeatedly(next, key, times - 1)

Rotates(key) ==
    LET trail == PressRepeatedly(Ui, key, NumControllers)
    IN  /\ trail[NumControllers] = activeElement
        /\ {trail[j] : j \in 1..NumControllers} = ControllerIndex

\* C21: from any focused controller, as many Down-arrow presses as there are
\* controllers give focus to every controller exactly once and end on the
\* starting controller; likewise for Up-arrow presses.
C21_ArrowsRotate ==
    activeElement \in ControllerIndex =>
        /\ Rotates(KeyArrowDown)
        /\ Rotates(KeyArrowUp)

C21_Witness ==
    /\ PressedAny(KeyArrowUp)
    /\ preActiveElement = 1
    /\ activeElement = NumControllers
    /\ PressRepeatedly(Ui, KeyArrowUp, NumControllers)[NumControllers] = NumControllers

------------------------------------------------------------------------------
(* C22 *)

\* C22: starting with no controller focused, after any sequence of focus,
\* blur and navigation-key events the root carries accordion--is-focused
\* exactly when one of the controllers has focus; in particular the class is
\* present after a navigation key moved focus to another controller.
C22_FocusedClassIffControllerFocused ==
    classList <=> activeElement \in ControllerIndex

C22_Witness ==
    /\ event.type = "keydown"
    /\ keyboardEvent.defaultPrevented
    /\ activeElement # preActiveElement
    /\ classList

------------------------------------------------------------------------------
\* The query operations as public methods of the widget, from any canonically
\* paired markup.

\* No handler has run, nothing is focused, no method has been called.
NoInteraction ==
    /\ console = {}
    /\ event = [type |-> "none", target |-> 0]
    /\ pre = Snapshot
    /\ activeElement = 0
    /\ classList = FALSE
    /\ keyboardEvent = NoKeyboardEvent
    /\ preActiveElement = 0
    /\ environment = [build |-> "accordion.ts", root |-> "element"]
    /\ call = NoCall
    /\ running = <<>>

InitQueries ==
    /\ phase = "markup"
    /\ \E expanded \in [ControllerIndex -> ExpandedValues],
          hidden \in [ContainerIndex -> BOOLEAN] :
          /\ controllers = [c \in ControllerIndex |->
                              [ariaControls |-> CanonicalControls(c),
                               ariaExpanded |-> expanded[c],
                               ariaDisabled |-> FALSE]]
          /\ containers = [k \in ContainerIndex |->
                              [ariaLabelledby |-> CanonicalLabelledby(k),
                               hidden |-> hidden[k]]]
    /\ root \in RootMarkup
    /\ NoInteraction

CommitQuery(method, target, returned) ==
    /\ call' = [method |-> method, argument |-> NoArgument,
                returned |-> returned, length |-> call.length]
    /\ event' = [type |-> method, target |-> target]
    /\ console' = {}
    /\ pre' = Snapshot
    /\ UNCHANGED <<phase, controllers, containers, root, environment, running>>
    /\ UNCHANGED focusVars

CallIsControllerExpanded(c) ==
    /\ phase = "ready"
    /\ CommitQuery("isControllerExpanded", c, Bool(isControllerExpanded(Dom, c)))

CallIsControllerDisabled(c) ==
    /\ phase = "ready"
    /\ CommitQuery("isControllerDisabled", c, Bool(isControllerDisabled(Dom, c)))

CallGetActiveControllers ==
    /\ phase = "ready"
    /\ CommitQuery("getActiveControllers", 0, getActiveControllers(Dom))

CallGetActiveContainers ==
    /\ phase = "ready"
    /\ CommitQuery("getActiveContainers", 0, getActiveContainers(Dom))

NextQueries ==
    \/ \E c \in ControllerIndex : CallIsControllerExpanded(c)
    \/ \E c \in ControllerIndex : CallIsControllerDisabled(c)
    \/ CallGetActiveControllers
    \/ CallGetActiveContainers
    \/ Construct
    \/ \E c \in ControllerIndex : updateContainerByController(c)

SpecQueries == InitQueries /\ [][NextQueries]_vars

------------------------------------------------------------------------------
(* C23 *)

\* seq lists exactly the members of set, each once, in increasing order.
ListsInOrder(seq, set) ==
    /\ Len(seq) = Cardinality(set)
    /\ {seq[i] : i \in 1..Len(seq)} = set
    /\ \A i \in 1..Len(seq), j \in 1..Len(seq) : i < j => seq[i] < seq[j]

Queried ==
    event.type \in {"isControllerExpanded", "isControllerDisabled",
                    "getActiveControllers", "getActiveContainers"}

\* C23: getActiveContainers, getActiveControllers, isControllerExpanded and
\* isControllerDisabled change no attribute of a controller, a container or
\* the root; getActiveControllers returns exactly the controllers whose
\* aria-expanded is "true" and getActiveContainers exactly the containers
\* without hidden, both in sequence order.
C23_QueriesArePure ==
    /\ Queried => Snapshot = pre
    /\ event.type = "getActiveControllers" =>
           ListsInOrder(call.returned,
                        {c \in ControllerIndex : controllers[c].ariaExpanded = "true"})
    /\ event.type = "getActiveContainers" =>
           ListsInOrder(call.returned,
                        {k \in ContainerIndex : ~containers[k].hidden})

C23_Witness ==
    /\ event.type = "getActiveContainers"
    /\ call.returned = <<>>
    /\ getActiveControllers(Dom) # <<>>

------------------------------------------------------------------------------
\* Widgets whose markup pairs every controller one-to-one with its own
\* container and carries no aria-disabled.

InitPaired == InitQueries

\* Clicks and changes of the two root flags.
SpecPairedFlags == InitPaired /\ [][Next]_vars

\* Clicks only: the two root flags stay as the markup has them.
NextPaired ==
    \/ Construct
    \/ \E c \in ControllerIndex : updateContainerByController(c)

SpecPaired == InitPaired /\ [][NextPaired]_vars

AllPaired(s) == \A c \in ControllerIndex : Paired(s, c)

ExpandedControllers(s) == {c \in ControllerIndex : Expanded(s, c)}

------------------------------------------------------------------------------
(* C24 *)

\* C24: without data-accordion-many-containers and with every controller
\* validly paired with its own container, after a click on controller C every
\* other controller has aria-expanded "false" and its container is hidden,
\* however many controllers were expanded before the click.
C24_ClickCollapsesAllOthers ==
    \A c \in ControllerIndex :
        (/\ Clicked(c)
         /\ ~pre.root.dataAccordionManyContainers
         /\ AllPaired(pre))
        => (/\ \A d \in ControllerIndex \ {c} :
                   /\ controllers[d].ariaExpanded = "false"
                   /\ \A k \in ContainerIndex : ValidPair(pre, d, k) => containers[k].hidden
            /\ Cardinality(ExpandedControllers(Snapshot)) <= 1)

C24_Witness ==
    \E c \in ControllerIndex :
        /\ Clicked(c)
        /\ ~pre.root.dataAccordionManyContainers
        /\ AllPaired(pre)
        /\ Cardinality(ExpandedControllers(pre) \ {c}) = NumControllers - 1
        /\ NumControllers > 1
        /\ ExpandedControllers(Snapshot) = {c}

------------------------------------------------------------------------------
(* C29 *)

\* C29: with the two root flags held fixed, one-to-one pairing and no
\* aria-disabled in the markup, a controller carries aria-disabled only if
\* its aria-expanded is "true" and the root has neither data-accordion-toggle
\* nor data-accordion-many-containers.
C29_DisabledOnlyWhenLocked ==
    \A c \in ControllerIndex :
        controllers[c].ariaDisabled
        => (/\ controllers[c].ariaExpanded = "true"
            /\ NeitherFlag(Snapshot))

C29_Witness ==
    \E c \in ControllerIndex, d \in ControllerIndex :
        /\ Clicked(c)
        /\ c # d
        /\ pre.controllers[d].ariaDisabled
        /\ ~controllers[d].ariaDisabled
        /\ controllers[c].ariaDisabled

------------------------------------------------------------------------------
(* C30 *)

\* C30: with neither root flag present (held fixed) and one-to-one pairing,
\* once a click has expanded some controller, exactly one controller is
\* expanded in every later state reached by clicks; the widget never returns
\* to the all-collapsed state.
C30_NeverAllCollapsedAgain ==
    (/\ phase = "ready"
     /\ event.type = "click"
     /\ NeitherFlag(Snapshot)
     /\ AllPaired(Snapshot))
    => Cardinality(ExpandedControllers(Snapshot)) = 1

C30_Witness ==
    \E c \in ControllerIndex :
        /\ Clicked(c)
        /\ NeitherFlag(Snapshot)
        /\ ExpandedControllers(pre) = {c}
        /\ pre.controllers[c].ariaDisabled
        /\ ExpandedControllers(Snapshot) = {c}

------------------------------------------------------------------------------
(* C25 *)

\* Construction alone, from every markup of Init.
NextConstruct == Construct

SpecConstruct == Init /\ [][NextConstruct]_vars

\* Container k is named by the aria-controls of a controller that the markup
\* does not have expanded.
NamedByCollapsed(s, k) ==
    \E d \in ControllerIndex :
        /\ ~Expanded(s, d)
        /\ s.controllers[d].ariaControls = ContainerId(k)

------------------------------------------------------------------------------
\* References edited after construction: the attributes validation reads are
\* live, so a page script may change them between two clicks.

ControllerReferences == {ContainerId(k) : k \in ContainerIndex} \cup {NoId}

ContainerReferences == {ControllerId(c) : c \in ControllerIndex} \cup {NoId}

BrokenReferencesOf(dom) ==
    BrokenReferences([c \in ControllerIndex |-> dom.controllers[c].ariaControls],
                     [k \in ContainerIndex |-> dom.containers[k].ariaLabelledby])

CommitMutation(dom, type, target) ==
    /\ BrokenReferencesOf(dom) <= MaxBrokenReferences
    /\ phase' = phase
    /\ Commit(dom, type, target)

\* controller.setAttribute("aria-controls", ref) by the page.
SetAriaControls(c, ref) ==
    /\ phase = "ready"
    /\ controllers[c].ariaControls # ref
    /\ CommitMutation([Dom EXCEPT !.controllers[c].ariaControls = ref],
                      "setAriaControls", c)

\* container.setAttribute("aria-labelledby", ref) by the page.
SetAriaLabelledby(k, ref) ==
    /\ phase = "ready"
    /\ containers[k].ariaLabelledby # ref
    /\ CommitMutation([Dom EXCEPT !.containers[k].ariaLabelledby = ref],
                      "setAriaLabelledby", k)

NextMutation ==
    \/ Construct
    \/ \E c \in ControllerIndex : updateContainerByController(c)
    \/ \E c \in ControllerIndex, ref \in ControllerReferences : SetAriaControls(c, ref)
    \/ \E k \in ContainerIndex, ref \in ContainerReferences : SetAriaLabelledby(k, ref)

SpecMutation == InitPaired /\ [][NextMutation]_vars

------------------------------------------------------------------------------
(* C26 *)

\* The reference of controller c resolves in s: its aria-controls names a
\* container whose aria-labelledby names a controller.
ReferenceResolves(s, c) ==
    \E k \in ContainerIndex :
        /\ s.controllers[c].ariaControls = ContainerId(k)
        /\ Labelled(s, k)

\* C26: pairing is validated again at every transition: after a reference of
\* controller c was changed so that it no longer resolves, a click on c
\* changes neither its aria-expanded nor any container's hidden; after a
\* broken reference was repaired, the click performs the transition.
C26_RevalidatedAtEveryClick ==
    \A c \in ControllerIndex :
        Clicked(c) =>
            /\ ~ReferenceResolves(pre, c) =>
                   /\ controllers[c].ariaExpanded = pre.controllers[c].ariaExpanded
                   /\ \A k \in ContainerIndex :
                          containers[k].hidden = pre.containers[k].hidden
            /\ (Paired(pre, c) /\ ~Expanded(pre, c)) =>
                   /\ controllers[c].ariaExpanded = "true"
                   /\ \A k \in ContainerIndex :
                          ValidPair(pre, c, k) => ~containers[k].hidden

------------------------------------------------------------------------------
\* Elements appended under the root after construction. The constructor
\* copied the two querySelectorAll results into arrays (enumerateElements),
\* so the appended button and section live in the document at index 0,
\* outside the arrays.

Appended(s) == 0 \in DOMAIN s.controllers /\ 0 \in DOMAIN s.containers

\* root.append(button, section): a button with class accordion__button and a
\* section with class accordion__section, the button expanded and the
\* section visible.
AppendElements(controls, labelledby) ==
    /\ phase = "ready"
    /\ ~Appended(Snapshot)
    /\ phase' = phase
    /\ Commit([Dom EXCEPT
                 !.controllers = [i \in {0} \cup ControllerIndex |->
                                    IF i = 0
                                    THEN [ariaControls |-> controls,
                                          ariaExpanded |-> "true",
                                          ariaDisabled |-> FALSE]
                                    ELSE controllers[i]],
                 !.containers = [i \in {0} \cup ContainerIndex |->
                                    IF i = 0
                                    THEN [ariaLabelledby |-> labelledby,
                                          hidden |-> FALSE]
                                    ELSE containers[i]]],
              "append", 0)

NextSnapshot ==
    \/ \E controls \in {ContainerId(1), ContainerId(0)},
          labelledby \in {ControllerId(1), ControllerId(0)} :
          AppendElements(controls, labelledby)
    \/ \E c \in ControllerIndex : updateContainerByController(c)
    \/ Appended(Snapshot) /\ SetAriaControls(getFirstController, ContainerId(0))
    \/ \E c \in ControllerIndex : FocusController(c)
    \/ \E key \in {KeyArrowDown, KeyEnd} : Keydown(key, FALSE)
    \/ CallGetActiveControllers
    \/ CallGetActiveContainers

SpecSnapshot == InitKeys /\ [][NextSnapshot]_vars

------------------------------------------------------------------------------
(* C28 *)

Elements(list) == {list[i] : i \in 1..Len(list)}

\* C28: the controllers and containers sequences are fixed at construction:
\* a button or section appended under the root afterwards is never the focus
\* target of keyboard navigation, is never returned by getActiveControllers
\* or getActiveContainers, and no click on a controller of the sequence
\* changes its attributes.
C28_AppendedElementsAreIgnored ==
    (Appended(Snapshot) /\ Appended(pre)) =>
        /\ event.type = "click" =>
               /\ controllers[0] = pre.controllers[0]
               /\ containers[0] = pre.containers[0]
        /\ event.type = "keydown" => activeElement \in ControllerIndex
        /\ event.type = "getActiveControllers" =>
               Elements(call.returned) \subseteq ControllerIndex
        /\ event.type = "getActiveContainers" =>
               Elements(call.returned) \subseteq ContainerIndex

C28_Witness ==
    \E c \in ControllerIndex, d \in ControllerIndex :
        /\ Appended(pre)
        /\ Clicked(c)
        /\ c # d
        /\ Expanded(pre, d) /\ ~Expanded(Snapshot, d)
        /\ controllers[0].ariaControls = ContainerId(d)
        /\ containers[0].ariaLabelledby = ControllerId(d)
        /\ controllers[0].ariaExpanded = "true"
        /\ ~containers[0].hidden

------------------------------------------------------------------------------
\* The listeners statement by statement. An event of the user is dispatched
\* when the call stack is empty; controller.focus() inside the keydown
\* listener dispatches blur and focus at once, so their listeners run on top
\* of the keydown listener, before it returns.

\* A listener on the call stack: pc is the statement it executes next, key
\* the key of a keydown listener, then the controller a pending focus() call
\* still has to give focus to (0 = none).
Frame(handler, target, key) ==
    [handler |-> handler, target |-> target, pc |-> 1, key |-> key, then |-> 0]

Top == running[Len(running)]

Pop == SubSeq(running, 1, Len(running) - 1)

\* A variant that lets the browser dispatch an event while a listener runs.
EventLoopIdle_Reentrant == TRUE

\* The browser dispatches the next event only when no listener is running.
EventLoopIdle == running = <<>>

\* updateContainerByController, first statement (accordion.ts 297-303).
collapseOthers(dom, c) ==
    IF ~allowManyContainers(dom)
    THEN DeactivateEach(dom, Without(getActiveControllers(dom), c))
    ELSE dom

\* updateContainerByController, second statement (accordion.ts 305-309).
transition(dom, c) ==
    IF ~isControllerExpanded(dom, c)
    THEN activateContainerByController(dom, c)
    ELSE IF willToggle(dom) /\ isControllerExpanded(dom, c)
         THEN deactivateContainerByController(dom, c)
         ELSE dom

\* The document a running listener works on; it keeps the diagnostics the
\* listener has reported so far.
RunningDom == [Dom EXCEPT !.console = console]

WriteDom(dom) ==
    /\ controllers' = dom.controllers
    /\ containers' = dom.containers
    /\ root' = dom.root
    /\ console' = dom.console

domVars == <<controllers, containers, root, console>>

DispatchClick(c) ==
    /\ phase = "ready"
    /\ EventLoopIdle
    /\ running' = Append(running, Frame("click", c, <<>>))
    /\ event' = [type |-> "click", target |-> c]
    /\ pre' = Snapshot
    /\ console' = {}
    /\ UNCHANGED <<phase, controllers, containers, root, environment, call>>
    /\ UNCHANGED focusVars

ClickCollapseOthers ==
    /\ running # <<>>
    /\ Top.handler = "click" /\ Top.pc = 1
    /\ WriteDom(collapseOthers(RunningDom, Top.target))
    /\ running' = Append(Pop, [Top EXCEPT !.pc = 2])
    /\ UNCHANGED <<phase, event, pre, environment, call>>
    /\ UNCHANGED focusVars

ClickTransition ==
    /\ running # <<>>
    /\ Top.handler = "click" /\ Top.pc = 2
    /\ WriteDom(transition(RunningDom, Top.target))
    /\ running' = Pop
    /\ UNCHANGED <<phase, event, pre, environment, call>>
    /\ UNCHANGED focusVars

\* The change listeners of app.ts: one statement each.
DispatchChange(flag, checked) ==
    /\ phase = "ready"
    /\ EventLoopIdle
    /\ root' = IF flag = "toggle"
               THEN [root EXCEPT !.dataAccordionToggle = checked]
               ELSE [root EXCEPT !.dataAccordionManyContainers = checked]
    /\ event' = [type |-> flag, target |-> 0]
    /\ pre' = Snapshot
    /\ console' = {}
    /\ UNCHANGED <<phase, controllers, containers, running, environment, call>>
    /\ UNCHANGED focusVars

\* Focus arrives at controller c from outside the widget.
DispatchFocus(c) ==
    /\ phase = "ready"
    /\ EventLoopIdle
    /\ activeElement = 0
    /\ running' = Append(running, Frame("focus", c, <<>>))
    /\ activeElement' = c
    /\ preActiveElement' = activeElement
    /\ event' = [type |-> "focus", target |-> c]
    /\ pre' = Snapshot
    /\ UNCHANGED <<phase, classList, keyboardEvent, environment, call>>
    /\ UNCHANGED domVars

\* Focus leaves the focused controller for the outside of the widget.
DispatchBlur ==
    /\ phase = "ready"
    /\ EventLoopIdle
    /\ activeElement \in ControllerIndex
    /\ running' = Append(running, Frame("blur", activeElement, <<>>))
    /\ activeElement' = 0
    /\ preActiveElement' = activeElement
    /\ event' = [type |-> "blur", target |-> activeElement]
    /\ pre' = Snapshot
    /\ UNCHANGED <<phase, classList, keyboardEvent, environment, call>>
    /\ UNCHANGED domVars

\* The focus or blur listener on top of the stack runs and returns; a blur
\* listener started by focus() is followed by the focus listener of the
\* controller that focus() was called on.
RootListener ==
    /\ running # <<>>
    /\ Top.handler \in {"focus", "blur"}
    /\ classList' = (Top.handler = "focus")
    /\ IF Top.handler = "blur" /\ Pop # <<>> /\ Pop[Len(Pop)].then # 0
       THEN LET caller == Pop[Len(Pop)]
            IN  /\ running' = SubSeq(Pop, 1, Len(Pop) - 1)
                                \o <<[caller EXCEPT !.then = 0],
                                     Frame("focus", caller.then, <<>>)>>
                /\ activeElement' = caller.then
       ELSE /\ running' = Pop
            /\ UNCHANGED activeElement
    /\ UNCHANGED <<phase, event, pre, keyboardEvent, preActiveElement,
                   environment, call>>
    /\ UNCHANGED domVars

DispatchKeydown(key) ==
    /\ phase = "ready"
    /\ EventLoopIdle
    /\ activeElement \in ControllerIndex
    /\ running' = Append(running, Frame("keydown", activeElement, key))
    /\ keyboardEvent' = [key |-> key, ctrlKey |-> FALSE, defaultPrevented |-> FALSE]
    /\ preActiveElement' = activeElement
    /\ event' = [type |-> "keydown", target |-> activeElement]
    /\ pre' = Snapshot
    /\ UNCHANGED <<phase, activeElement, classList, environment, call>>
    /\ UNCHANGED domVars

\* The condition and the focus target of the pc-th if statement of the
\* keydown listener of controller c.
KeydownCondition(pc, ev) ==
    CASE pc = 1 -> isKeyup(ev)
      [] pc = 2 -> isKeydown(ev)
      [] pc = 3 -> match(ev.key, <<"h", "o", "m", "e">>)
      [] OTHER -> match(ev.key, <<"e", "n", "d">>)

KeydownTarget(pc, c) ==
    CASE pc = 1 -> getPrevController(c)
      [] pc = 2 -> getNextController(c)
      [] pc = 3 -> getFirstController
      [] OTHER -> getLastController

\* One of the four if statements of the keydown listener.
KeydownStatement ==
    /\ running # <<>>
    /\ Top.handler = "keydown"
    /\ Top.pc <= 4
    /\ LET next == [Top EXCEPT !.pc = Top.pc + 1]
           after == Append(Pop, next)
           target == KeydownTarget(Top.pc, Top.target)
       IN  IF ~KeydownCondition(Top.pc, keyboardEvent)
           THEN /\ running' = after
                /\ UNCHANGED <<activeElement, keyboardEvent>>
           ELSE /\ keyboardEvent' = [keyboardEvent EXCEPT !.defaultPrevented = TRUE]
                /\ IF target = activeElement
                   THEN /\ running' = after
                        /\ UNCHANGED activeElement
                   ELSE IF activeElement \in ControllerIndex
                   THEN /\ running' = Append(Pop, [next EXCEPT !.then = target])
                                        \o <<Frame("blur", activeElement, <<>>)>>
                        /\ activeElement' = 0
                   ELSE /\ running' = Append(Pop, next)
                                        \o <<Frame("focus", target, <<>>)>>
                        /\ activeElement' = target
    /\ UNCHANGED <<phase, classList, event, pre, preActiveElement, environment, call>>
    /\ UNCHANGED domVars

\* The keydown listener returns after its four statements.
KeydownReturn ==
    /\ running # <<>>
    /\ Top.handler = "keydown"
    /\ Top.pc > 4
    /\ running' = Pop
    /\ UNCHANGED <<phase, event, pre, environment, call>>
    /\ UNCHANGED focusVars
    /\ UNCHANGED domVars

NextHandlers ==
    \/ \E c \in ControllerIndex : DispatchClick(c)
    \/ ClickCollapseOthers
    \/ ClickTransition
    \/ \E flag \in {"toggle", "many"}, checked \in BOOLEAN : DispatchChange(flag, checked)
    \/ \E c \in ControllerIndex : DispatchFocus(c)
    \/ DispatchBlur
    \/ RootListener
    \/ \E key \in {KeyArrowDown, KeyHome, KeyEnter} : DispatchKeydown(key)
    \/ KeydownStatement
    \/ KeydownReturn

SpecHandlers == InitKeys /\ [][NextHandlers]_vars

------------------------------------------------------------------------------
(* C27 *)

PreDom == [controllers |-> pre.controllers, containers |-> pre.containers,
           root |-> pre.root, console |-> {}]

Attributes(dom) ==
    [controllers |-> dom.controllers, containers |-> dom.containers, root |-> dom.root]

\* C27 (as stated): whatever the interleaving of click, key-press, focus,
\* blur and root-flag-change events, each listener runs to completion before
\* another listener starts, the focus and blur listeners that the key-press
\* listener triggers through focus() included, and nothing writes an
\* attribute between the first read and the last write of one
\* updateContainerByController call.
C27_OneListenerAtATime ==
    /\ Len(running) <= 1
    /\ \A i \in 1..Len(running) :
           running[i].handler = "click" =>
               /\ event = [type |-> "click", target |-> running[i].target]
               /\ Snapshot = IF running[i].pc = 1 THEN pre
                             ELSE Attributes(collapseOthers(PreDom, running[i].target))

\* C27 (amended): every listener the browser dispatches for an event of the
\* user runs to completion before the next such event is dispatched; the only
\* listeners that start while another one is running are the blur and focus
\* listeners that focus() starts inside the key-press listener, and they write
\* no attribute; so nothing writes an attribute between the first read and
\* the last write of one updateContainerByController call, whose outcome is
\* that of the call run alone.
C27_OnlyFocusListenersNest ==
    /\ Len(running) <= 2
    /\ Len(running) = 2 =>
           /\ running[1].handler = "keydown"
           /\ running[2].handler \in {"focus", "blur"}
           /\ Snapshot = pre
    /\ \A i \in 1..Len(running) :
           running[i].handler = "click" =>
               /\ Len(running) = 1
               /\ event = [type |-> "click", target |-> running[i].target]
               /\ Snapshot = IF running[i].pc = 1 THEN pre
                             ELSE Attributes(collapseOthers(PreDom, running[i].target))
    /\ (running = <<>> /\ event.type = "click") =>
           /\ Snapshot = Attributes(updateContainerByControllerDom(PreDom, event.target))
           /\ console = updateContainerByControllerDom(PreDom, event.target).console

C27_Witness ==
    /\ Len(running) = 1
    /\ running[1].handler = "click"
    /\ running[1].pc = 2
    /\ Snapshot # pre
    /\ activeElement \in ControllerIndex
    /\ keyboardEvent.defaultPrevented

------------------------------------------------------------------------------
(* C31 *)

\* C31: with data-accordion-many-containers present and every controller
\* paired one-to-one with its own container, updateContainerByController(C)
\* changes no attribute of any controller other than C and of any container
\* other than C's container.
C31_ManyContainersFrame ==
    \A c \in ControllerIndex :
        (Clicked(c) /\ pre.root.dataAccordionManyContainers /\ AllPaired(pre)) =>
            /\ \A d \in ControllerIndex \ {c} : controllers[d] = pre.controllers[d]
            /\ \A k \in ContainerIndex :
                   ~ValidPair(pre, c, k) => containers[k] = pre.containers[k]

C31_Witness ==
    \E c \in ControllerIndex :
        /\ Clicked(c)
        /\ pre.root.dataAccordionManyContainers
        /\ AllPaired(pre)
        /\ controllers[c] # pre.controllers[c]
        /\ \E d \in ControllerIndex \ {c} : Expanded(pre, d) /\ Expanded(Snapshot, d)

------------------------------------------------------------------------------
(* C34 *)

\* C34: with neither root flag present and every controller validly paired,
\* a second updateContainerByController call on the controller that was just
\* clicked leaves every controller and container attribute exactly as the
\* first call left it.
C34_ClickIsIdempotent ==
    \A c \in ControllerIndex :
        (Clicked(c) /\ NeitherFlag(pre) /\ AllPaired(pre)) =>
            /\ Attributes(updateContainerByControllerDom(Dom, c)) = Snapshot
            /\ Attributes(updateContainerByControllerDom(PreDom, c)) = Snapshot

C34_Witness ==
    \E c \in ControllerIndex :
        /\ Clicked(c)
        /\ NeitherFlag(pre)
        /\ AllPaired(pre)
        /\ Snapshot # pre
        /\ \E d \in ControllerIndex \ {c} : Expanded(pre, d)

------------------------------------------------------------------------------
(* C35 *)

\* C35: with data-accordion-many-containers present and every controller
\* paired one-to-one with its own container, for all distinct controllers A
\* and B and every reachable state, updateContainerByController(A) followed
\* by updateContainerByController(B) yields the same attribute state as B
\* followed by A.
C35_ClicksCommute ==
    (phase = "ready" /\ root.dataAccordionManyContainers /\ AllPaired(Snapshot)) =>
        \A a, b \in ControllerIndex :
            a # b =>
                Attributes(updateContainerByControllerDom(
                               updateContainerByControllerDom(Dom, a), b))
                  = Attributes(updateContainerByControllerDom(
                                   updateContainerByControllerDom(Dom, b), a))

\* A click on B has followed a click on A, both changed attributes, and the
\* state is the one B followed by A yields from the state before the pair.
C35_Witness ==
    \E a, b \in ControllerIndex :
        /\ a # b
        /\ Clicked(b)
        /\ pre.root.dataAccordionManyContainers
        /\ AllPaired(pre)
        /\ Snapshot # pre
        /\ Expanded(pre, a)
        /\ ~Expanded(Snapshot, b)
        /\ Attributes(updateContainerByControllerDom(
                          updateContainerByControllerDom(Dom, a), b))
             # Snapshot

------------------------------------------------------------------------------
(* C33 *)

OnlyReferencedBy(s, c, k) ==
    \A d \in ControllerIndex :
        s.controllers[d].ariaControls = ContainerId(k) <=> d = c

\* C33: construction only collapses: no controller's aria-expanded is set to
\* "true", no container loses its hidden attribute, no aria-disabled is
\* added, and a controller whose aria-expanded is "true" in the markup,
\* together with the container only it references, keeps every attribute it
\* had in the markup.
C33_ConstructionOnlyCollapses ==
    Constructed =>
        /\ \A c \in ControllerIndex :
               /\ Expanded(Snapshot, c) => Expanded(pre, c)
               /\ controllers[c].ariaDisabled => pre.controllers[c].ariaDisabled
               /\ Expanded(pre, c) =>
                      /\ controllers[c] = pre.controllers[c]
                      /\ \A k \in ContainerIndex :
                             OnlyReferencedBy(pre, c, k) =>
                                 containers[k] = pre.containers[k]
        /\ \A k \in ContainerIndex : pre.containers[k].hidden => containers[k].hidden

\* Construction collapsed one controller and left alone an expanded one
\* whose own container the markup hides.
C33_Witness ==
    /\ Constructed
    /\ Snapshot # pre
    /\ \E c \in ControllerIndex, k \in ContainerIndex :
           /\ Expanded(pre, c)
           /\ OnlyReferencedBy(pre, c, k)
           /\ pre.containers[k].hidden

------------------------------------------------------------------------------
(* C32 *)

\* C32: the focus, blur and key-press handlers never change any controller's
\* aria-expanded or aria-disabled or any container's hidden;
\* updateContainerByController never changes the root's flags or its
\* accordion--is-focused class, any element's aria-controls or
\* aria-labelledby, or which element has focus (an element's id is its
\* position in the document, which no handler can change).
C32_HandlersFrame ==
    [][/\ event'.type \in {"focus", "blur", "keydown"} =>
              /\ \A c \in ControllerIndex :
                     /\ controllers'[c].ariaExpanded = controllers[c].ariaExpanded
                     /\ controllers'[c].ariaDisabled = controllers[c].ariaDisabled
              /\ \A k \in ContainerIndex :
                     containers'[k].hidden = containers[k].hidden
       /\ event'.type = "click" =>
              /\ root' = root
              /\ classList' = classList
              /\ activeElement' = activeElement
              /\ \A c \in ControllerIndex :
                     controllers'[c].ariaControls = controllers[c].ariaControls
              /\ \A k \in ContainerIndex :
                     containers'[k].ariaLabelledby = containers[k].ariaLabelledby
      ]_vars

\* A click on the focused controller has collapsed another controller and
\* expanded its own, with the root still marked as focused.
C32_Witness ==
    \E c \in ControllerIndex :
        /\ Clicked(c)
        /\ activeElement = c
        /\ classList
        /\ Expanded(Snapshot, c)
        /\ \E d \in ControllerIndex \ {c} : Expanded(pre, d) /\ ~Expanded(Snapshot, d)

------------------------------------------------------------------------------
(* C37 *)

\* C37: getPrevController and getNextController are mutual inverses on the
\* controllers sequence: for every controller c,
\* getNextController(getPrevController(c)) = c and
\* getPrevController(getNextController(c)) = c, and each returns a member of
\* the controllers sequence; so the controller an Up-arrow press left is the
\* next controller of the one it reached, and the one a Down-arrow press left
\* is the previous controller of the one it reached.
C37_PrevNextAreInverses ==
    phase = "ready" =>
        /\ \A c \in ControllerIndex :
               /\ getPrevController(c) \in ControllerIndex
               /\ getNextController(c) \in ControllerIndex
               /\ getNextController(getPrevController(c)) = c
               /\ getPrevController(getNextController(c)) = c
        /\ PressedAny(KeyArrowUp) => getNextController(activeElement) = preActiveElement
        /\ PressedAny(KeyArrowDown) => getPrevController(activeElement) = preActiveElement

\* Down-arrow on the last controller wrapped to the first.
C37_Witness ==
    /\ PressedAny(KeyArrowDown)
    /\ preActiveElement = getLastController
    /\ activeElement = getFirstController
    /\ getPrevController(activeElement) = preActiveElement

------------------------------------------------------------------------------
(* The bundled build (webpack output), next to the TypeScript source *)

\* A variant whose early return comes before the controller is validated, so
\* that an unresolved controller gets no diagnostic.
activateContainerByControllerBundled_ReturnsFirst(dom, c) ==
    IF getContainerByController(dom, c) = 0 THEN dom
    ELSE activateContainerByController(dom, c)

\* As the source, with "if (!container) return;" between the lookup and the
\* validation of the container.
activateContainerByControllerBundled(dom, c) ==
    LET v == isController(dom, c)
    IN  IF v.result
        THEN LET container == getContainerByController(v.dom, c)
             IN  IF container = 0 THEN v.dom
                 ELSE LET w == isContainer(v.dom, container)
                      IN  IF w.result
                          THEN [w.dom EXCEPT
                                  !.controllers[c].ariaExpanded = "true",
                                  !.containers[container].hidden = FALSE,
                                  !.controllers[c].ariaDisabled =
                                      IF ~willToggle(w.dom) THEN TRUE ELSE @]
                          ELSE w.dom
        ELSE v.dom

deactivateContainerByControllerBundled(dom, c) ==
    LET v == isController(dom, c)
    IN  IF v.result
        THEN LET container == getContainerByController(v.dom, c)
             IN  IF container = 0 THEN v.dom
                 ELSE LET w == isContainer(v.dom, container)
                      IN  IF w.result
                          THEN [w.dom EXCEPT
                                  !.controllers[c].ariaExpanded = "false",
                                  !.containers[container].hidden = TRUE,
                                  !.controllers[c].ariaDisabled =
                                      IF ~willToggle(w.dom) THEN FALSE ELSE @]
                          ELSE w.dom
        ELSE v.dom

RECURSIVE DeactivateEachBundled(_, _)
DeactivateEachBundled(dom, list) ==
    IF list = <<>> THEN dom
    ELSE DeactivateEachBundled(deactivateContainerByControllerBundled(dom, Head(list)),
                               Tail(list))

updateContainerByControllerBundled(dom, c) ==
    LET collapsed == IF ~allowManyContainers(dom)
                     THEN DeactivateEachBundled(dom, Without(getActiveControllers(dom), c))
                     ELSE dom
    IN  IF ~isControllerExpanded(collapsed, c)
        THEN activateContainerByControllerBundled(collapsed, c)
        ELSE IF willToggle(collapsed) /\ isControllerExpanded(collapsed, c)
             THEN deactivateContainerByControllerBundled(collapsed, c)
             ELSE collapsed

defaultContainersByControllersBundled(dom) ==
    DeactivateEachBundled(dom,
        FilterSeq(1, NumControllers,
            {c \in ControllerIndex : dom.controllers[c].ariaExpanded = "absent"
                                     \/ dom.controllers[c].ariaExpanded = "false"}))

\* context.root?.classList.add / remove: nothing when the root is null.
activateRootBundled(ui) ==
    IF environment.root = "element" THEN [ui EXCEPT !.classList = TRUE] ELSE ui

deactivateRootBundled(ui) ==
    IF environment.root = "element" THEN [ui EXCEPT !.classList = FALSE] ELSE ui

focusBundled(ui, c) ==
    IF ui.activeElement = c THEN ui
    ELSE LET blurred == IF ui.activeElement \in ControllerIndex
                        THEN deactivateRootBundled(ui) ELSE ui
         IN  activateRootBundled([blurred EXCEPT !.activeElement = c])

blurBundled(ui) ==
    IF ui.activeElement \in ControllerIndex
    THEN deactivateRootBundled([ui EXCEPT !.activeElement = 0]) ELSE ui

navigateControllerEventBundled(ui, c, ev) ==
    LET s1 == IF isKeyup(ev)
              THEN focusBundled(preventDefault(ui), getPrevController(c)) ELSE ui
        s2 == IF isKeydown(ev)
              THEN focusBundled(preventDefault(s1), getNextController(c)) ELSE s1
        s3 == IF match(ev.key, <<"h", "o", "m", "e">>)
              THEN focusBundled(preventDefault(s2), getFirstController) ELSE s2
        s4 == IF match(ev.key, <<"e", "n", "d">>)
              THEN focusBundled(preventDefault(s3), getLastController) ELSE s3
    IN  s4

\* Any markup whose sections all carry hidden or all lack it, a root element
\* present; then construction and clicks, run by the TypeScript source.
InitBuilds ==
    /\ Init
    /\ \A j, k \in ContainerIndex : containers[j].hidden = containers[k].hidden

NextBuilds ==
    \/ Construct
    \/ \E c \in ControllerIndex : updateContainerByController(c)

SpecBuilds == InitBuilds /\ [][NextBuilds]_vars

------------------------------------------------------------------------------
(* C36 *)

\* The bundled build's early return is taken: the controller passed
\* isController and getContainerByController found no container.
EarlyReturnDecides(dom, c) ==
    isControllerResult(dom, c) /\ getContainerByController(dom, c) = 0

\* What a listener can find: any element focused, the class set or not.
UiStates ==
    [activeElement : ControllerIndex \cup {0}, classList : BOOLEAN,
     defaultPrevented : {FALSE}]

BuildKeys == {KeyUp, KeyEnd}

\* C36: with a root element present the TypeScript source and the bundled
\* build are equivalent: in every state the source reaches from any markup,
\* the construction and each click of the bundled build yield the same
\* attributes and diagnostics as those of the source, the bundled build's
\* early return is never the deciding branch, and each focus, blur and key
\* press yields the same focus target and class in both builds; so both
\* reach the same state after every sequence of events.
C36_BuildsAgree ==
    /\ phase = "markup" =>
           defaultContainersByControllersBundled(Dom) = defaultContainersByControllers(Dom)
    /\ \A c \in ControllerIndex :
           /\ ~EarlyReturnDecides(Dom, c)
           /\ updateContainerByControllerBundled(Dom, c) = updateContainerByControllerDom(Dom, c)
           /\ \A ui \in UiStates : focusBundled(ui, c) = focus(ui, c)
           /\ \A key \in BuildKeys :
                  LET ev == [key |-> key, ctrlKey |-> FALSE, defaultPrevented |-> FALSE]
                      ui == [activeElement |-> c, classList |-> TRUE,
                             defaultPrevented |-> FALSE]
                  IN  navigateControllerEventBundled(ui, c, ev)
                        = navigateControllerEvent(ui, c, ev)
    /\ \A ui \in UiStates : blurBundled(ui) = blur(ui)

\* A click on a controller whose aria-controls names no container: both
\* builds report the controller and write nothing for it.
C36_Witness ==
    \E c \in ControllerIndex :
        /\ Clicked(c)
        /\ ~isControllerResult(PreDom, c)
        /\ getContainerByController(PreDom, c) = 0
        /\ <<"controller", c>> \in console
        /\ Snapshot = Attributes(updateContainerByControllerBundled(PreDom, c))
        /\ console = updateContainerByControllerBundled(PreDom, c).console
====
